---- MODULE Spec2Model ----
(***************************************************************************)
(* A model of the mangas.io plugin of izneo-get                            *)
(* (src/izneo_get/plugins/mangas_io.py, class MangasIo).                   *)
(*                                                                         *)
(* Two parts of the plugin carry state:                                    *)
(*   - the session: authenticate() with read_token, is_token_valid,        *)
(*     get_bearer and write_token, the token cache file, self.bearer and   *)
(*     the "authorization" header;                                         *)
(*   - page resolution: before_download_page(), run by concurrent asyncio  *)
(*     tasks behind the class-level asyncio.Semaphore(1), each call        *)
(*     re-running get_book_infos() / _fill_infos().                        *)
(* The backend, the file system and the operator at the terminal are the   *)
(* environment: every answer they can give is a nondeterministic input.    *)
(* An exception is modelled as a result of its own ("raise"), which the    *)
(* caller propagates unless the code catches it.                           *)
(***************************************************************************)
EXTENDS Integers, Sequences, FiniteSets, TLC

(***************************************************************************)
(* Bounds of the model.                                                    *)
(***************************************************************************)
\* get_bearer() calls explored in one authenticate() (the loop has no cap).
MaxLogins == 2

\* Concurrent before_download_page() tasks the orchestrator starts.
NTasks == 3

\* Page indices asked for: 0..MaxPageNum.
MaxPageNum == 2

(***************************************************************************)
(* The session: tokens, the cache file, the probe and the login.           *)
(***************************************************************************)
\* bearer: str = ""  -- the class default, the empty token.
NoToken == ""

\* Token strings: the empty one and two that a server may issue.
Tokens == {NoToken, "tokA", "tokB"}

\* headers has no "authorization" key until authenticate() sets it.
NoHeader == "<no authorization header>"

\* The cache file <cache_folder>/TOKEN_MANGAS_IO: absent, or holding a string.
CacheFiles == [exists : BOOLEAN, content : Tokens]

AbsentFile == [exists |-> FALSE, content |-> NoToken]

\* What the file system does on open(file_token, "r").
ReadOutcomes == {"ok", "os_error"}

\* What the file system does in write_token: all goes well, os.makedirs raises,
\* open(..., "w") raises, or f.write raises after open truncated the file.
WriteOutcomes == {"ok", "makedirs_raises", "open_raises", "write_raises"}

\* What requests.post(".../auth/token_validation") brings back:
\* a RequestException (connection error, timeout), a status other than 200,
\* 200 with {"status": "success"}, 200 with another or no status field,
\* 200 with a body that is not JSON, 200 with JSON that is not an object.
ProbeOutcomes ==
    {"request_exception", "non_200", "success", "not_success",
     "body_not_json", "body_not_object"}

\* What requests.post(".../auth/login") brings back: a RequestException, a
\* status other than 200, 200 with {"token": t}, 200 with no "token" key,
\* 200 with a body that is not JSON.
LoginOutcomes ==
    {[kind |-> "request_exception", token |-> NoToken],
     [kind |-> "non_200", token |-> NoToken],
     [kind |-> "no_token_key", token |-> NoToken],
     [kind |-> "body_not_json", token |-> NoToken]}
    \cup {[kind |-> "ok", token |-> t] : t \in Tokens}

Return(v) == [raised |-> FALSE, value |-> v]

Raise(v) == [raised |-> TRUE, value |-> v]

\* read_token: self.bearer after the call. FileNotFoundError is passed over and
\* leaves self.bearer as it was; any other OSError is not caught.
read_token(file, bearer, fs) ==
    IF ~file.exists THEN Return(bearer)
    ELSE IF fs = "os_error" THEN Raise(bearer)
    ELSE Return(file.content)

\* A write_token that returns without touching the file.
write_token_drops(file, token, fs) ==
    Return(file)

\* A write_token that catches the OSError of makedirs, open and write.
write_token_swallows(file, token, fs) ==
    CASE fs = "ok" -> Return([exists |-> TRUE, content |-> token])
      [] fs = "makedirs_raises" -> Return(file)
      [] fs = "open_raises" -> Return(file)
      [] fs = "write_raises" -> Return([exists |-> TRUE, content |-> NoToken])

\* write_token: the file after the call, and whether the call raised.
write_token(file, token, fs) ==
    CASE fs = "ok" -> Return([exists |-> TRUE, content |-> token])
      [] fs = "makedirs_raises" -> Raise(file)
      [] fs = "open_raises" -> Raise(file)
      [] fs = "write_raises" -> Raise([exists |-> TRUE, content |-> NoToken])

\* is_token_valid: False without any request for the empty token; the
\* RequestException is caught; response.json() and .get() stand outside the try.
is_token_valid(bearer, probe) ==
    IF bearer = NoToken THEN Return(FALSE)
    ELSE CASE probe = "request_exception" -> Return(FALSE)
           [] probe = "non_200" -> Return(FALSE)
           [] probe = "success" -> Return(TRUE)
           [] probe = "not_success" -> Return(FALSE)
           [] probe = "body_not_json" -> Raise(FALSE)
           [] probe = "body_not_object" -> Raise(FALSE)

\* get_bearer: requests.post is called outside any try; a status other than
\* 200 returns ""; response.json()["token"] raises on a body without it.
get_bearer(login) ==
    CASE login.kind = "request_exception" -> Raise(NoToken)
      [] login.kind = "non_200" -> Return(NoToken)
      [] login.kind = "ok" -> Return(login.token)
      [] login.kind = "no_token_key" -> Raise(NoToken)
      [] login.kind = "body_not_json" -> Raise(NoToken)

\* A loop that runs its body whatever is_token_valid() returned.
while_always_logs_in(valid) ==
    "get_bearer"

\* A loop that never runs its body.
while_never_logs_in(valid) ==
    "write_token"

\* while not self.is_token_valid(): ... -- where authenticate() goes next.
while_not_valid(valid) ==
    IF valid THEN "write_token" ELSE "get_bearer"

\* f"Bearer {self.bearer}"
BearerHeader(token) == "Bearer " \o token

VARIABLES
    apc,            \* where authenticate() stands
    bearer,         \* self.bearer
    cacheFile,      \* the token cache file
    authorization,  \* self.headers["authorization"], NoHeader while unset
    logins,         \* get_bearer() calls made by this authenticate()
    loaded,         \* history: self.bearer as read_token() left it
    firstVerdict,   \* history: what the first is_token_valid() call did
    lastProbe,      \* history: the latest is_token_valid() call
    lastLogin,      \* history: the latest get_bearer() call
    raisedBy        \* history: the call whose exception left authenticate()

sessionVars ==
    <<apc, bearer, cacheFile, authorization, logins, loaded, firstVerdict,
      lastProbe, lastLogin, raisedBy>>

VARIABLES
    plugin,         \* per MangasIo instance: url, slug, chapter_nb
    sem,            \* MangasIo.sem, the class-level semaphore
    running,        \* the task the event loop is running, NoTask between steps
    tasks,          \* per before_download_page() task: position, arguments, locals
    arrivals,       \* history: the tasks in the order they reached the gate
    entered         \* history: the tasks in the order they entered the gated body

pageVars == <<plugin, sem, running, tasks, arrivals, entered>>

VARIABLES
    given,          \* the argument of a _fill_infos(data) call made on its own
    built,          \* what that call returned or raised, NotFilled before it
    parses          \* history per instance: its _parse_url() calls on their own

callVars == <<given, built, parses>>

vars == <<sessionVars, pageVars, callVars>>

Verdict(r) == IF r.raised THEN "raise" ELSE IF r.value THEN "True" ELSE "False"

NoProbe == [token |-> NoToken, outcome |-> "none", verdict |-> "none"]

NoLogin == [kind |-> "none", raised |-> FALSE, token |-> NoToken]

\* A plugin instance just constructed, beside whatever cache file earlier runs left.
InitSession ==
    /\ apc = "init"
    /\ bearer = NoToken
    /\ cacheFile \in CacheFiles
    /\ ~cacheFile.exists => cacheFile = AbsentFile
    /\ authorization = NoHeader
    /\ logins = 0
    /\ loaded = NoToken
    /\ firstVerdict = "none"
    /\ lastProbe = NoProbe
    /\ lastLogin = NoLogin
    /\ raisedBy = "none"

\* authenticate(), line 49: self.read_token()
AuthReadToken ==
    /\ apc = "init"
    /\ \E fs \in ReadOutcomes :
        LET r == read_token(cacheFile, bearer, fs) IN
        /\ bearer' = r.value
        /\ loaded' = r.value
        /\ apc' = IF r.raised THEN "raised" ELSE "is_token_valid"
        /\ raisedBy' = IF r.raised THEN "read_token" ELSE raisedBy
    /\ UNCHANGED <<cacheFile, authorization, logins, firstVerdict, lastProbe,
                   lastLogin>>
    /\ UNCHANGED <<pageVars, callVars>>

\* authenticate(), line 50: the loop test, one call of is_token_valid()
AuthProbe ==
    /\ apc = "is_token_valid"
    /\ \E probe \in ProbeOutcomes :
        LET r == is_token_valid(bearer, probe) IN
        /\ lastProbe' = [token |-> bearer, outcome |-> probe,
                         verdict |-> Verdict(r)]
        /\ firstVerdict' = IF firstVerdict = "none" THEN Verdict(r)
                           ELSE firstVerdict
        /\ apc' = IF r.raised THEN "raised" ELSE while_not_valid(r.value)
        /\ raisedBy' = IF r.raised THEN "is_token_valid" ELSE raisedBy
    /\ UNCHANGED <<bearer, cacheFile, authorization, logins, loaded, lastLogin>>
    /\ UNCHANGED <<pageVars, callVars>>

\* authenticate(), line 51: self.bearer = self.get_bearer()
AuthLogin ==
    /\ apc = "get_bearer"
    /\ logins < MaxLogins
    /\ \E login \in LoginOutcomes :
        LET r == get_bearer(login) IN
        /\ lastLogin' = [kind |-> login.kind, raised |-> r.raised,
                         token |-> r.value]
        /\ bearer' = IF r.raised THEN bearer ELSE r.value
        /\ apc' = IF r.raised THEN "raised" ELSE "is_token_valid"
        /\ raisedBy' = IF r.raised THEN "get_bearer" ELSE raisedBy
    /\ logins' = logins + 1
    /\ UNCHANGED <<cacheFile, authorization, loaded, firstVerdict, lastProbe>>
    /\ UNCHANGED <<pageVars, callVars>>

\* authenticate(), line 52: self.write_token(self.bearer)
AuthWriteToken ==
    /\ apc = "write_token"
    /\ \E fs \in WriteOutcomes :
        LET r == write_token(cacheFile, bearer, fs) IN
        /\ cacheFile' = r.value
        /\ apc' = IF r.raised THEN "raised" ELSE "set_header"
        /\ raisedBy' = IF r.raised THEN "write_token" ELSE raisedBy
    /\ UNCHANGED <<bearer, authorization, logins, loaded, firstVerdict,
                   lastProbe, lastLogin>>
    /\ UNCHANGED <<pageVars, callVars>>

\* authenticate(), line 53: self.headers["authorization"] = f"Bearer {self.bearer}"
AuthSetHeader ==
    /\ apc = "set_header"
    /\ authorization' = BearerHeader(bearer)
    /\ apc' = "done"
    /\ UNCHANGED <<bearer, cacheFile, logins, loaded, firstVerdict, lastProbe,
                   lastLogin, raisedBy>>
    /\ UNCHANGED <<pageVars, callVars>>


(***************************************************************************)
(* JSON values as response.json() yields them, tagged by their type.       *)
(* Absent is the result of a subscript that raises (KeyError, TypeError):  *)
(* it is no JSON value, and every further access of it raises too.        *)
(***************************************************************************)
JNull == [t |-> "null"]

JStr(s) == [t |-> "str", v |-> s]

JNum(n) == [t |-> "num", v |-> n]

JArr(s) == [t |-> "arr", v |-> s]

JObj(f) == [t |-> "obj", v |-> f]

Absent == [t |-> "raise"]

\* An object with no key: {}.
NoKeys == [k \in {} |-> JNull]

\* Python's truth value of a JSON value (not x).
Truthy(j) ==
    CASE j.t = "null" -> FALSE
      [] j.t = "str" -> j.v # ""
      [] j.t = "num" -> j.v # 0
      [] j.t = "arr" -> Len(j.v) > 0
      [] j.t = "obj" -> DOMAIN j.v # {}
      [] OTHER -> FALSE

\* j[k] for a string key k.
Sub(j, k) == IF j.t = "obj" /\ k \in DOMAIN j.v THEN j.v[k] ELSE Absent

\* j.get(k): None for a missing key; AttributeError on anything but a dict.
Get(j, k) ==
    IF j.t = "obj" THEN (IF k \in DOMAIN j.v THEN j.v[k] ELSE JNull)
    ELSE Absent

\* str(x) of a JSON value.
PyStr(j) ==
    CASE j.t = "str" -> j.v
      [] j.t = "num" -> ToString(j.v)
      [] j.t = "null" -> "None"
      [] OTHER -> "<repr>"

(***************************************************************************)
(* URLs and _parse_url. A URL is a sequence of characters; the literal     *)
(* "https://www.mangas.io/lire/" of the pattern is written as one          *)
(* character, Lire.                                                        *)
(***************************************************************************)
Lire == "https://www.mangas.io/lire/"

Digits == {"0", "1", "2", "3", "4", "5", "6", "7", "8", "9"}

\* The class [\d\.] of the pattern.
DigitOrDot == Digits \cup {"."}

DigitValue(c) ==
    CASE c = "0" -> 0 [] c = "1" -> 1 [] c = "2" -> 2 [] c = "3" -> 3
      [] c = "4" -> 4 [] c = "5" -> 5 [] c = "6" -> 6 [] c = "7" -> 7
      [] c = "8" -> 8 [] c = "9" -> 9

\* The longest run of characters of class cls in s from position i on: its end
\* (i - 1 when s[i] is not of the class).
RECURSIVE RunEnd(_, _, _)
RunEnd(s, i, cls) ==
    IF i <= Len(s) /\ s[i] \in cls THEN RunEnd(s, i + 1, cls) ELSE i - 1

\* The pattern Lire([^/]+)/([\d\.]+) matched at position i of url: the two
\* groups, or no match. [^/]+ stops at the first "/", [\d\.]+ is greedy.
MatchAt(url, i) ==
    LET NotSlash == {url[k] : k \in 1..Len(url)} \ {"/"}
        slugEnd == RunEnd(url, i + 1, NotSlash)
        chapEnd == RunEnd(url, slugEnd + 2, DigitOrDot)
    IN  IF /\ i <= Len(url)
           /\ url[i] = Lire
           /\ slugEnd >= i + 1
           /\ slugEnd + 1 <= Len(url)
           /\ url[slugEnd + 1] = "/"
           /\ chapEnd >= slugEnd + 2
        THEN [matched |-> TRUE,
              slug |-> SubSeq(url, i + 1, slugEnd),
              chapter |-> SubSeq(url, slugEnd + 2, chapEnd)]
        ELSE [matched |-> FALSE, slug |-> <<>>, chapter |-> <<>>]

\* re.match(pattern, url): the pattern at the start of url.
re_match(url) == MatchAt(url, 1)

\* re.search(pattern, url): the leftmost position where the pattern matches.
re_search(url) ==
    LET hits == {i \in 1..Len(url) : MatchAt(url, i).matched} IN
    IF hits = {} THEN MatchAt(url, Len(url) + 1)
    ELSE MatchAt(url, CHOOSE i \in hits : \A j \in hits : i <= j)

\* is_valid_url: any pattern of URL_PATTERNS matches at the start.
is_valid_url(url) == re_match(url).matched

Count(s, cls) == Cardinality({k \in 1..Len(s) : s[k] \in cls})

\* float(s) for a string of digits and dots: a ValueError unless it holds at
\* least one digit and at most one dot.
FloatParses(s) == Count(s, Digits) >= 1 /\ Count(s, {"."}) <= 1

RECURSIVE DigitsToNat(_)
DigitsToNat(s) ==
    IF s = <<>> THEN 0
    ELSE 10 * DigitsToNat(SubSeq(s, 1, Len(s) - 1)) + DigitValue(s[Len(s)])

RECURSIVE StripZeros(_)
StripZeros(s) ==
    IF s # <<>> /\ s[Len(s)] = "0" THEN StripZeros(SubSeq(s, 1, Len(s) - 1))
    ELSE s

\* The value of float(s) as the decimal num / 10^scale, trailing zeros of the
\* fraction dropped: "3" and "3.0" are both 3 / 10^0, "12.5" is 125 / 10^1.
FloatOf(s) ==
    LET dots == {k \in 1..Len(s) : s[k] = "."}
        dot == IF dots = {} THEN Len(s) + 1 ELSE CHOOSE k \in dots : TRUE
        whole == SubSeq(s, 1, dot - 1)
        frac == StripZeros(SubSeq(s, dot + 1, Len(s)))
    IN  [num |-> DigitsToNat(whole \o frac), scale |-> Len(frac)]

PyFloat(f) == [t |-> "float", v |-> f]

PyChars(s) == [t |-> "str", v |-> s]

\* chapter_nb: float = 0.0
ZeroFloat == PyFloat([num |-> 0, scale |-> 0])

\* _parse_url on an instance [url, slug, chapter_nb]: the instance after the
\* call and whether float() raised. The two groups are assigned before float()
\* is applied, so a ValueError leaves the slug set and chapter_nb a string.
_parse_url(self) ==
    IF self.slug # <<>> THEN Return(self)
    ELSE LET res == re_search(self.url) IN
         IF ~res.matched THEN Return(self)
         ELSE IF FloatParses(res.chapter)
              THEN Return([self EXCEPT !.slug = res.slug,
                                       !.chapter_nb = PyFloat(FloatOf(res.chapter))])
              ELSE Raise([self EXCEPT !.slug = res.slug,
                                      !.chapter_nb = PyChars(res.chapter)])

(***************************************************************************)
(* get_book_infos and _fill_infos.                                         *)
(***************************************************************************)
\* What http_post brings back: an exception of the helper, or a response with
\* a status and a body; NotJson is a body response.json() cannot parse.
HttpRaises == [kind |-> "raise"]

NotJson == [t |-> "not_json"]

HttpResponse(status, body) == [kind |-> "response", status |-> status, body |-> body]

\* Iterating a JSON value: a list gives its items; an empty str or dict gives
\* none; None and numbers are not iterable; the items of a non-empty str or
\* dict are strings, on which the loop body's subscript raises.
IterOf(j) ==
    CASE j.t = "arr" -> [ok |-> TRUE, items |-> j.v]
      [] j.t \in {"str", "obj"} /\ ~Truthy(j) -> [ok |-> TRUE, items |-> <<>>]
      [] OTHER -> [ok |-> FALSE, items |-> <<>>]

\* The fields BookInfos(title=..., pages=...) leaves to their defaults.
BookInfos(title, pages) ==
    [title |-> title, pages |-> pages, authors |-> "", volume |-> "",
     chapter |-> "", description |-> JStr(""), read_direction |-> "LTOR",
     page_urls |-> <<>>, custom_fields |-> NoKeys]

\* BookInfos(title="", pages=0)
SentinelInfos == BookInfos(JStr(""), JNum(0))

\* ", ".join(names)
RECURSIVE Join(_)
Join(names) ==
    IF names = <<>> THEN ""
    ELSE IF Len(names) = 1 THEN names[1]
    ELSE names[1] \o ", " \o Join(Tail(names))

\* A scan that gives up after the first chapter of the list.
ScanChapters_first_only(chapters, i, chapter_id) ==
    IF i > Len(chapters) THEN "miss"
    ELSE LET cid == Sub(chapters[i], "_id") IN
         IF cid = Absent THEN "raise"
         ELSE IF cid = chapter_id THEN "hit"
         ELSE "miss"

\* for c in v["chapters"]: if c["_id"] == chapter_id: ...; break
\* "hit" at the first chapter with the id, "miss" at the end of the list,
\* "raise" at a chapter without "_id" met before either.
RECURSIVE ScanChapters(_, _, _)
ScanChapters(chapters, i, chapter_id) ==
    IF i > Len(chapters) THEN "miss"
    ELSE LET cid == Sub(chapters[i], "_id") IN
         IF cid = Absent THEN "raise"
         ELSE IF cid = chapter_id THEN "hit"
         ELSE ScanChapters(chapters, i + 1, chapter_id)

\* for v in manga_data["volumes"]: the inner break leaves the inner loop only,
\* so every volume is scanned and each hit overwrites volume_number and
\* volume_desc. found is the pair so far.
RECURSIVE ScanVolumes(_, _, _, _)
ScanVolumes(volumes, i, chapter_id, found) ==
    IF i > Len(volumes) THEN Return(found)
    ELSE LET v == volumes[i]
             chapters == IterOf(Sub(v, "chapters"))
             hit == IF chapters.ok THEN ScanChapters(chapters.items, 1, chapter_id)
                    ELSE "raise"
         IN  CASE hit = "raise" -> Raise(found)
               [] hit = "miss" -> ScanVolumes(volumes, i + 1, chapter_id, found)
               [] hit = "hit" ->
                    IF Sub(v, "number") = Absent \/ Sub(v, "description") = Absent
                    THEN Raise(found)
                    ELSE ScanVolumes(volumes, i + 1, chapter_id,
                                     [number |-> PyStr(Sub(v, "number")),
                                      description |-> Sub(v, "description")])

\* A table keyed by the position of the page in the list, not by its number.
PagesMap_by_position(pages) ==
    [n \in {JNum(k) : k \in 1..Len(pages)} |-> Sub(pages[n.v], "_id")]

\* {page["number"]: page["_id"] for page in pages}: a later page with the same
\* number replaces the earlier one.
PagesMap(pages) ==
    LET idx == 1..Len(pages)
        last(n) == CHOOSE k \in idx :
                      /\ Sub(pages[k], "number") = n
                      /\ \A m \in idx : Sub(pages[m], "number") = n => m <= k
    IN  [n \in {Sub(pages[k], "number") : k \in idx} |-> Sub(pages[last(n)], "_id")]

\* _fill_infos(data): the BookInfos, or the exception of a subscript or loop.
_fill_infos(data) ==
    LET manga_data == Sub(Sub(data, "data"), "manga")
        title == Sub(manga_data, "title")
        direction == Sub(manga_data, "direction")
        authorList == IterOf(Sub(manga_data, "authors"))
        names == [k \in 1..Len(authorList.items) |-> Sub(authorList.items[k], "name")]
        chapter_data == Sub(manga_data, "chapter")
        chapter_id == Sub(chapter_data, "_id")
        volumeList == IterOf(Sub(manga_data, "volumes"))
        volume == ScanVolumes(volumeList.items, 1, chapter_id,
                              [number |-> "", description |-> JStr("")])
        number == Sub(chapter_data, "number")
        page_count == Sub(chapter_data, "pageCount")
        pages == Sub(chapter_data, "pages")
        pageList == IF Truthy(pages) THEN IterOf(pages)
                    ELSE [ok |-> TRUE, items |-> <<>>]
        pages_map == PagesMap(pageList.items)
        raises ==
            \/ Absent \in {title, direction, chapter_id, number, page_count, pages}
            \/ ~authorList.ok
            \/ \E k \in 1..Len(names) : names[k].t # "str"
            \/ ~volumeList.ok
            \/ volume.raised
            \/ ~pageList.ok
            \/ \E k \in 1..Len(pageList.items) :
                  \/ Sub(pageList.items[k], "number") = Absent
                  \/ Sub(pageList.items[k], "_id") = Absent
    IN  IF raises THEN Raise(SentinelInfos)
        ELSE Return(
            [title |-> title,
             pages |-> page_count,
             authors |-> Join([k \in 1..Len(names) |-> names[k].v]),
             volume |-> volume.value.number,
             chapter |-> PyStr(number),
             description |-> volume.value.description,
             read_direction |-> IF direction = JStr("rtl") THEN "RTOL" ELSE "LTOR",
             page_urls |-> [k \in 1..Cardinality(DOMAIN pages_map) |-> ""],
             custom_fields |-> ("pages_map" :> pages_map)])

\* get_book_infos() on an instance, given what http_post brings back: the
\* instance after _parse_url, the BookInfos returned or the place that raised.
get_book_infos(self, resp) ==
    LET parsed == _parse_url(self)
        out(raisedIn, infos) ==
            [raised |-> raisedIn # "none", where |-> raisedIn,
             self |-> parsed.value, infos |-> infos]
    IN  IF parsed.raised THEN out("_parse_url", SentinelInfos)
        ELSE IF resp.kind = "raise" THEN out("http_post", SentinelInfos)
        ELSE IF resp.status # 200 THEN out("none", SentinelInfos)
        ELSE IF resp.body = NotJson THEN out("response.json", SentinelInfos)
        ELSE IF ~Truthy(resp.body) THEN out("none", SentinelInfos)
        ELSE IF Get(resp.body, "data") = Absent THEN out("data.get", SentinelInfos)
        ELSE IF ~Truthy(Get(resp.body, "data")) THEN out("none", SentinelInfos)
        ELSE LET filled == _fill_infos(resp.body) IN
             IF filled.raised THEN out("_fill_infos", SentinelInfos)
             ELSE out("none", filled.value)

(***************************************************************************)
(* before_download_page: the lookup in the table and the page query.       *)
(***************************************************************************)
\* A lookup by page_num itself, not page_num + 1.
find_page_id_same_index(infos, page_num) ==
    LET cf == infos.custom_fields
        key == JNum(page_num)
    IN  IF DOMAIN cf = {} \/ "pages_map" \notin DOMAIN cf
        THEN [found |-> FALSE, id |-> JNull]
        ELSE IF key \notin DOMAIN cf["pages_map"] THEN [found |-> FALSE, id |-> JNull]
        ELSE [found |-> Truthy(cf["pages_map"][key]), id |-> cf["pages_map"][key]]

\* A lookup in a table kept from an earlier call, {1: "a", 2: "b"}, whatever
\* the metadata just fetched.
find_page_id_in_kept_table(infos, page_num) ==
    LET kept == JNum(1) :> JStr("a") @@ JNum(2) :> JStr("b")
        key == JNum(page_num + 1)
    IN  IF key \notin DOMAIN kept THEN [found |-> FALSE, id |-> JNull]
        ELSE [found |-> TRUE, id |-> kept[key]]

\* Lines 207-213: no custom_fields or no "pages_map" in them returns "";
\* page_id = pages_map.get(page_num + 1), and a falsy page_id returns "".
find_page_id(infos, page_num) ==
    LET cf == infos.custom_fields
        key == JNum(page_num + 1)
    IN  IF DOMAIN cf = {} \/ "pages_map" \notin DOMAIN cf
        THEN [found |-> FALSE, id |-> JNull]
        ELSE IF key \notin DOMAIN cf["pages_map"] THEN [found |-> FALSE, id |-> JNull]
        ELSE [found |-> Truthy(cf["pages_map"][key]), id |-> cf["pages_map"][key]]

\* Lines 224-241: every exception of the query or of reading its answer is
\* caught and gives ""; so does a status other than 200.
page_url(resp) ==
    IF resp.kind = "raise" THEN JStr("")
    ELSE IF resp.status # 200 THEN JStr("")
    ELSE IF resp.body = NotJson THEN JStr("")
    ELSE LET url == Sub(Sub(Sub(Sub(resp.body, "data"), "page"), "image"), "url")
         IN  IF url = Absent THEN JStr("") ELSE url

(***************************************************************************)
(* asyncio.Semaphore, as `async with self.sem` uses it: a counter and the   *)
(* queue of the futures of the waiting tasks, as CPython 3.11 implements   *)
(* it. A future stays in the queue until its task runs again. No task is   *)
(* cancelled.                                                              *)
(***************************************************************************)
\* sem = asyncio.Semaphore(1)
SemInitial == 1

\* A semaphore with one permit too many.
Semaphore_of_two == [value |-> SemInitial + 1, waiters |-> <<>>]

\* A semaphore with one permit for each instance, as if every instance had
\* a gate of its own.
Semaphore_per_instance == [value |-> Cardinality({"p1", "p2"}), waiters |-> <<>>]

NewSemaphore == [value |-> SemInitial, waiters |-> <<>>]

\* locked(): the counter is 0, or a future of the queue is not cancelled.
locked(s) == s.value = 0 \/ Len(s.waiters) > 0

Waking(s) == {k \in 1..Len(s.waiters) : ~s.waiters[k].done}

\* A wake-up that picks the last waiter not done.
_wake_up_last(s) ==
    IF Waking(s) = {} THEN s
    ELSE LET k == CHOOSE i \in Waking(s) : \A j \in Waking(s) : j <= i IN
         [value |-> s.value - 1,
          waiters |-> [s.waiters EXCEPT ![k].done = TRUE]]

\* _wake_up_next(): the first future not done takes the permit and is set.
_wake_up_next(s) ==
    IF Waking(s) = {} THEN s
    ELSE LET k == CHOOSE i \in Waking(s) : \A j \in Waking(s) : i <= j IN
         [value |-> s.value - 1,
          waiters |-> [s.waiters EXCEPT ![k].done = TRUE]]

\* A way out of the block that leaves the semaphore as it is.
release_skipped(s) == s

\* release(), run by __aexit__ on every way out of the async with block.
release(s) == _wake_up_next([s EXCEPT !.value = @ + 1])

\* acquire() when not locked: the permit is taken at once.
acquire_now(s) == [s EXCEPT !.value = @ - 1]

\* acquire() when locked: a new future joins the queue and is awaited.
acquire_wait(s, t) ==
    [s EXCEPT !.waiters = Append(@, [task |-> t, done |-> FALSE])]

FutureDone(s, t) ==
    \E k \in 1..Len(s.waiters) : s.waiters[k].task = t /\ s.waiters[k].done

\* acquire() after `await fut`: the future leaves the queue, and a permit
\* left over wakes the next waiter.
acquire_resume(s, t) ==
    LET rest == SelectSeq(s.waiters, LAMBDA w : w.task # t)
        left == [s EXCEPT !.waiters = rest]
    IN  IF left.value > 0 THEN _wake_up_next(left) ELSE left

(***************************************************************************)
(* The backend's answers explored.                                         *)
(***************************************************************************)
Page(number, id) == JObj("number" :> JNum(number) @@ "_id" :> JStr(id))

ChapterOf(id, number, pageCount, pages) ==
    JObj("_id" :> JStr(id) @@ "number" :> JNum(number)
         @@ "title" :> JStr("chapter") @@ "pageCount" :> JNum(pageCount)
         @@ "pages" :> pages)

VolumeOf(number, description, chapterIds) ==
    JObj("_id" :> JStr("v" \o ToString(number)) @@ "number" :> JNum(number)
         @@ "description" :> JStr(description)
         @@ "chapters" :> JArr([k \in 1..Len(chapterIds) |->
                JObj("_id" :> JStr(chapterIds[k]) @@ "title" :> JStr("chapter")
                     @@ "number" :> JNum(k))]))

MangaOf(direction, authors, volumes, chapter) ==
    JObj("_id" :> JStr("m1") @@ "title" :> JStr("Demo")
         @@ "direction" :> JStr(direction)
         @@ "authors" :> JArr([k \in 1..Len(authors) |->
                JObj("name" :> JStr(authors[k]))])
         @@ "volumes" :> JArr(volumes) @@ "chapter" :> chapter)

DataOf(manga) == JObj("data" :> JObj("manga" :> manga))

DemoVolumes == <<VolumeOf(1, "first", <<"c1", "c2">>), VolumeOf(2, "second", <<"c3">>)>>

TwoPages == JArr(<<Page(1, "a"), Page(2, "b")>>)

\* Answers to getReadingChapter: the helper raises; a status other than 200;
\* a body that is not JSON; {}; [1]; {"data": null}; a manga that is null (unknown
\* slug); a chapter that is null (unknown number); a chapter without pages;
\* a chapter with pages (1, "a"), (2, "b").
MetaResponses ==
    {HttpRaises,
     HttpResponse(500, JNull),
     HttpResponse(200, NotJson),
     HttpResponse(200, JObj(NoKeys)),
     HttpResponse(200, JArr(<<JNum(1)>>)),
     HttpResponse(200, JObj("data" :> JNull)),
     HttpResponse(200, DataOf(JNull)),
     HttpResponse(200, DataOf(MangaOf("rtl", <<"A", "B">>, DemoVolumes, JNull))),
     HttpResponse(200, DataOf(MangaOf("ltr", <<"A">>, DemoVolumes,
                                      ChapterOf("c3", 3, 0, JNull)))),
     HttpResponse(200, DataOf(MangaOf("rtl", <<"A", "B">>, DemoVolumes,
                                      ChapterOf("c2", 2, 2, TwoPages))))}

ImageUrl(id) == "https://cdn.mangas.io/" \o PyStr(id)

\* Answers to getPageById for a page id: the helper raises; a status other
\* than 200; a body that is not JSON; a page that is null; the image URL.
PageResponses(id) ==
    {HttpRaises,
     HttpResponse(500, JNull),
     HttpResponse(200, NotJson),
     HttpResponse(200, JObj("data" :> JObj("page" :> JNull))),
     HttpResponse(200, JObj("data" :> JObj("page" :> JObj("image" :>
                            JObj("url" :> JStr(ImageUrl(id)))))))}

(***************************************************************************)
(* Instances, tasks and the event loop.                                    *)
(***************************************************************************)
\* Two plugin instances of the process; MangasIo.sem belongs to the class.
Instances == {"p1", "p2"}

\* The URL each instance was built with: .../lire/d/3 and .../lire/d/1.2.3,
\* both of which URL_PATTERNS accepts.
UrlOf(i) ==
    IF i = "p1" THEN <<Lire, "d", "/", "3">>
    ELSE <<Lire, "d", "/", "1", ".", "2", ".", "3">>

NewPlugin(url) == [url |-> url, slug |-> <<>>, chapter_nb |-> ZeroFloat]

Tasks == 1..NTasks

NoTask == 0

NoInfos == BookInfos(JNull, JNull)

NoResult == [t |-> "none"]

\* No answer to getReadingChapter held by a call.
NoFetch == [kind |-> "none"]

IdleTask ==
    [pc |-> "idle", self |-> "p1", page_num |-> 0, book_infos |-> NoInfos,
     page_id |-> JNull, result |-> NoResult, lookup |-> "none", queries |-> 0,
     raisedIn |-> "none", fetched |-> NoFetch]

InitPages ==
    /\ plugin = [i \in Instances |-> NewPlugin(UrlOf(i))]
    /\ sem = NewSemaphore
    /\ running = NoTask
    /\ tasks = [t \in Tasks |-> IdleTask]
    /\ arrivals = <<>>
    /\ entered = <<>>

\* A call that is over: its arguments and locals are gone; what it returned
\* or where it raised is kept, with the history of its lookup and queries.
Finished(task, pc, result, raisedIn) ==
    [IdleTask EXCEPT !.pc = pc, !.result = result, !.raisedIn = raisedIn,
                     !.lookup = task.lookup, !.queries = task.queries]

\* The body of the async with block is the part between acquire and release.
InBody(t) == tasks[t].pc \in {"get_book_infos", "lookup", "await_thread"}

\* Page work that forgets the token it was given.
SessionDropped ==
    /\ bearer' = NoToken
    /\ UNCHANGED <<apc, cacheFile, authorization, logins, loaded, firstVerdict,
                   lastProbe, lastLogin, raisedBy>>

\* What get_book_infos() and before_download_page() do to the session: they
\* read self.headers for their requests and assign neither self.bearer, nor
\* self.headers, nor the cache file.
SessionKept == UNCHANGED sessionVars

\* The host calls get_book_infos() itself, before any page work; what it
\* returns or raises goes to the host.
DirectGetBookInfos(i) ==
    /\ running = NoTask
    /\ arrivals = <<>>
    /\ \E resp \in MetaResponses :
        LET r == get_book_infos(plugin[i], resp) IN
        plugin' = [plugin EXCEPT ![i] = r.self]
    /\ UNCHANGED <<sem, running, tasks, arrivals, entered>>
    /\ SessionKept
    /\ UNCHANGED callVars

\* Line 205: a task calls before_download_page(page_num, url) on an instance
\* and runs acquire() up to its first suspension. Tasks are numbered in the
\* order the orchestrator starts them.
Call(t, i, n) ==
    /\ running = NoTask
    /\ tasks[t].pc = "idle"
    /\ t = Len(arrivals) + 1
    /\ arrivals' = Append(arrivals, t)
    /\ IF ~locked(sem)
       THEN /\ sem' = acquire_now(sem)
            /\ tasks' = [tasks EXCEPT ![t].pc = "get_book_infos",
                                      ![t].self = i, ![t].page_num = n]
            /\ running' = t
            /\ entered' = Append(entered, t)
       ELSE /\ sem' = acquire_wait(sem, t)
            /\ tasks' = [tasks EXCEPT ![t].pc = "await_fut",
                                      ![t].self = i, ![t].page_num = n]
            /\ running' = NoTask
            /\ entered' = entered
    /\ UNCHANGED <<plugin>>
    /\ SessionKept
    /\ UNCHANGED callVars

\* Line 205: a waiting task whose future was set runs again, inside acquire().
Resume(t) ==
    /\ running = NoTask
    /\ tasks[t].pc = "await_fut"
    /\ FutureDone(sem, t)
    /\ sem' = acquire_resume(sem, t)
    /\ tasks' = [tasks EXCEPT ![t].pc = "get_book_infos"]
    /\ running' = t
    /\ entered' = Append(entered, t)
    /\ UNCHANGED <<plugin, arrivals>>
    /\ SessionKept
    /\ UNCHANGED callVars

\* Line 206: book_infos = self.get_book_infos(), a blocking call outside the
\* try block; its exception leaves the async with block, which releases.
\* fetched is history: the answer this call's book_infos was built from.
GetBookInfos(t) ==
    /\ running = t
    /\ tasks[t].pc = "get_book_infos"
    /\ \E resp \in MetaResponses :
        LET r == get_book_infos(plugin[tasks[t].self], resp) IN
        /\ plugin' = [plugin EXCEPT ![tasks[t].self] = r.self]
        /\ IF r.raised
           THEN /\ tasks' = [tasks EXCEPT ![t] = Finished(@, "raised", NoResult,
                                                           r.where)]
                /\ sem' = release(sem)
                /\ running' = NoTask
           ELSE /\ tasks' = [tasks EXCEPT ![t].pc = "lookup",
                                          ![t].book_infos = r.infos,
                                          ![t].fetched = resp]
                /\ UNCHANGED <<sem, running>>
    /\ UNCHANGED <<arrivals, entered>>
    /\ SessionKept
    /\ UNCHANGED callVars

\* The keys of the page identifier table of a BookInfos, none when it has no
\* table. The lookup history of a call is "hit" when page_num + 1 is a key,
\* "absent" when there is no key at all, "miss" otherwise.
TableKeys(infos) ==
    IF "pages_map" \in DOMAIN infos.custom_fields
    THEN DOMAIN infos.custom_fields["pages_map"] ELSE {}

\* Lines 207-233: the lookup; "" at once, or the query handed to a worker
\* thread with the task suspended on it.
Lookup(t) ==
    /\ running = t
    /\ tasks[t].pc = "lookup"
    /\ LET found == find_page_id(tasks[t].book_infos, tasks[t].page_num)
           keys == TableKeys(tasks[t].book_infos)
           seen == IF JNum(tasks[t].page_num + 1) \in keys THEN "hit"
                   ELSE IF keys = {} THEN "absent" ELSE "miss"
       IN  IF found.found
           THEN /\ tasks' = [tasks EXCEPT ![t].pc = "await_thread",
                                          ![t].page_id = found.id,
                                          ![t].lookup = seen,
                                          ![t].queries = @ + 1]
                /\ sem' = sem
           ELSE /\ tasks' = [tasks EXCEPT ![t] = Finished([@ EXCEPT !.lookup = seen],
                                                           "returned", JStr(""), "none")]
                /\ sem' = release(sem)
    /\ running' = NoTask
    /\ UNCHANGED <<plugin, arrivals, entered>>
    /\ SessionKept
    /\ UNCHANGED callVars

\* Lines 233-241: the worker thread is done; the task runs again, returns the
\* URL or "", and leaves the async with block.
FetchDone(t) ==
    /\ running = NoTask
    /\ tasks[t].pc = "await_thread"
    /\ \E resp \in PageResponses(tasks[t].page_id) :
        tasks' = [tasks EXCEPT ![t] = Finished(@, "returned", page_url(resp),
                                               "none")]
    /\ sem' = release(sem)
    /\ UNCHANGED <<plugin, running, arrivals, entered>>
    /\ SessionKept
    /\ UNCHANGED callVars

(***************************************************************************)
(* _fill_infos and _parse_url called on their own, on drawn arguments.     *)
(***************************************************************************)
MaxVolumes == 2

MaxPages == 2

MaxParses == 2

\* The sequences over S of length n at most.
SeqsUpTo(S, n) == UNION {[1..k -> S] : k \in 0..n}

\* The chapter lists a volume of the answer may carry, as chapter ids.
ChapterLists == {<<>>, <<"c1">>, <<"c2">>, <<"c1", "c2">>, <<"c2", "c1">>}

\* manga.volumes of an answer: the k-th volume has number k.
VolumesOf(lists) ==
    [k \in 1..Len(lists) |-> VolumeOf(k, "volume " \o ToString(k), lists[k])]

\* chapter.pages of an answer: the k-th page has the given number and the id
\* "p<k>", so pages of one number differ in their ids.
PagesOf(numbers) ==
    JArr([k \in 1..Len(numbers) |-> Page(numbers[k], "p" \o ToString(k))])

\* Answers to getReadingChapter of the shape the query asks for: up to
\* MaxVolumes volumes, the chapter read being "c1" (which volumes may list,
\* more than once too) or "c3" (which none lists), its pages null or a list of
\* up to MaxPages pages numbered within 1..MaxPages, numbers repeated or not.
FillPayloads ==
    {DataOf(MangaOf("rtl", <<"A">>, VolumesOf(lists),
                    ChapterOf(id, 1, Len(pages[1]), pages[2]))) :
        lists \in SeqsUpTo(ChapterLists, MaxVolumes),
        id \in {"c1", "c3"},
        pages \in {<<numbers, PagesOf(numbers)>> :
                      numbers \in SeqsUpTo(1..MaxPages, MaxPages)}
                  \cup {<<<<>>, JNull>>}}

NotFilled == [raised |-> FALSE, value |-> NoInfos, called |-> FALSE]

NotParsed == [calls |-> 0, raised |-> FALSE]

\* No call made on its own.
InitCalls ==
    /\ given = JNull
    /\ built = NotFilled
    /\ parses = [i \in Instances |-> NotParsed]

\* self._fill_infos(data)
FillInfos ==
    /\ built = NotFilled
    /\ built' = _fill_infos(given)
    /\ UNCHANGED <<given, parses>>
    /\ UNCHANGED <<sessionVars, pageVars>>

MaxChapterLen == 4

\* The characters drawn for the chapter segment of a URL.
ChapterChars == {"1", "2", "3", "5", "."}

\* URLs given to the constructor: the prefix of the pattern, at the start or
\* after another character, a slug or none, "/", a chapter segment of up to
\* MaxChapterLen digits and dots, and nothing or more path after it.
Urls ==
    {before \o <<Lire>> \o slug \o <<"/">> \o chapter \o after :
        before \in {<<>>, <<"x">>},
        slug \in {<<>>, <<"d">>},
        chapter \in SeqsUpTo(ChapterChars, MaxChapterLen),
        after \in {<<>>, <<"/", "x">>}}

\* self._parse_url() on instance i, up to MaxParses times.
ParseUrl(i) ==
    /\ parses[i].calls < MaxParses
    /\ LET r == _parse_url(plugin[i]) IN
        /\ plugin' = [plugin EXCEPT ![i] = r.value]
        /\ parses' = [parses EXCEPT ![i] = [calls |-> @.calls + 1,
                                            raised |-> r.raised]]
    /\ UNCHANGED <<given, built>>
    /\ UNCHANGED <<sem, running, tasks, arrivals, entered>>
    /\ UNCHANGED sessionVars

NextAuth ==
    \/ AuthReadToken
    \/ AuthProbe
    \/ AuthLogin
    \/ AuthWriteToken
    \/ AuthSetHeader

NextPages ==
    \/ \E i \in Instances : DirectGetBookInfos(i)
    \/ \E t \in Tasks, i \in Instances, n \in 0..MaxPageNum : Call(t, i, n)
    \/ \E t \in Tasks : Resume(t)
    \/ \E t \in Tasks : GetBookInfos(t)
    \/ \E t \in Tasks : Lookup(t)
    \/ \E t \in Tasks : FetchDone(t)

\* A session that authenticate() has established with a cached token.
SessionReady ==
    /\ apc = "done"
    /\ bearer = "tokA"
    /\ cacheFile = [exists |-> TRUE, content |-> "tokA"]
    /\ authorization = BearerHeader("tokA")
    /\ logins = 0
    /\ loaded = "tokA"
    /\ firstVerdict = "True"
    /\ lastProbe = [token |-> "tokA", outcome |-> "success", verdict |-> "True"]
    /\ lastLogin = NoLogin
    /\ raisedBy = "none"

\* Session establishment alone.
InitAuth ==
    /\ InitSession
    /\ InitPages
    /\ InitCalls

SpecAuth == InitAuth /\ [][NextAuth]_vars

\* Page work on an established session.
InitReady ==
    /\ SessionReady
    /\ InitPages
    /\ InitCalls

SpecPages == InitReady /\ [][NextPages]_vars

\* A step of a call that is under way, other than the fetch of line 206: the
\* event loop runs a task that is ready, and the query handed to the worker
\* thread returns or raises.
TaskStep ==
    \E t \in Tasks : Resume(t) \/ Lookup(t) \/ FetchDone(t)

\* The blocking http_post of line 206 returns or raises: no call stays in it
\* for ever.
FetchReturns == \A t \in Tasks : []<>(tasks[t].pc # "get_book_infos")

\* Page work in which a call that can go on does go on.
SpecPagesFair ==
    InitReady /\ [][NextPages]_vars /\ WF_vars(TaskStep) /\ FetchReturns

\* The whole plugin: the session is established, then pages are resolved.
Init == InitAuth

Next ==
    \/ NextAuth
    \/ (apc = "done" /\ NextPages)

Spec == Init /\ [][Next]_vars

\* _fill_infos on each answer of FillPayloads.
InitFill ==
    /\ SessionReady
    /\ InitPages
    /\ given \in FillPayloads
    /\ built = NotFilled
    /\ parses = [i \in Instances |-> NotParsed]

NextFill == FillInfos

SpecFill == InitFill /\ [][NextFill]_vars

\* _parse_url on instances built with the URLs of Urls.
InitUrl ==
    /\ SessionReady
    /\ InitCalls
    /\ \E u \in Urls :
        plugin = [i \in Instances |-> NewPlugin(IF i = "p1" THEN u ELSE UrlOf(i))]
    /\ sem = NewSemaphore
    /\ running = NoTask
    /\ tasks = [t \in Tasks |-> IdleTask]
    /\ arrivals = <<>>
    /\ entered = <<>>

NextUrl == \E i \in Instances : ParseUrl(i)

SpecUrl == InitUrl /\ [][NextUrl]_vars

(***************************************************************************)
(* Session properties (SpecAuth).                                          *)
(***************************************************************************)
\* The latest is_token_valid() call returned True, for the token held now.
Accepted ==
    /\ lastProbe.verdict = "True"
    /\ lastProbe.token = bearer
    /\ bearer # NoToken

\* C1: authenticate() gets past its loop only after is_token_valid() accepted
\* the current token; the cache file and the authorization header change only
\* after that accepting probe; and on return the cache file, self.bearer and
\* the header "Bearer <token>" all hold that accepted token.
C1_ReturnsOnlyOnAcceptedToken ==
    /\ [](apc \in {"write_token", "set_header", "done"} => Accepted)
    /\ [](apc = "done" =>
            /\ cacheFile = [exists |-> TRUE, content |-> lastProbe.token]
            /\ authorization = BearerHeader(lastProbe.token))
    /\ [](authorization # NoHeader => apc = "done")
    /\ [][(cacheFile' # cacheFile \/ authorization' # authorization)
            => Accepted]_vars

\* authenticate() has returned after at least one login.
C1_Witness == apc = "done" /\ logins > 0 /\ Accepted

\* C2: when the validator accepts the cached token (the first probe, of the
\* token read_token loaded, returns True), get_bearer is never called and the
\* header installed on return carries exactly that cached token.
C2_AcceptedCacheSkipsLogin ==
    firstVerdict = "True" =>
        /\ logins = 0
        /\ lastLogin = NoLogin
        /\ bearer = loaded
        /\ apc \in {"write_token", "set_header", "done", "raised"}
        /\ apc = "done" => authorization = BearerHeader(loaded)

\* authenticate() has returned on an accepted cached token.
C2_Witness ==
    /\ apc = "done"
    /\ firstVerdict = "True"
    /\ loaded = "tokB"
    /\ authorization = BearerHeader("tokB")

\* C3: when the validator rejects the cached token (empty and absent file
\* included), authenticate() does not get past its loop without calling
\* get_bearer at least once; and when it returns, the token of the last login
\* is the accepted one and a read_token() of a fresh instance loads exactly it.
C3_RejectedCacheLogsInAndPersists ==
    firstVerdict = "False" =>
        /\ apc # "get_bearer" => logins >= 1
        /\ apc = "done" =>
            /\ ~lastLogin.raised
            /\ lastLogin.token = lastProbe.token
            /\ lastProbe.verdict = "True"
            /\ read_token(cacheFile, NoToken, "ok") = Return(lastLogin.token)

\* A cached tokA was rejected, two logins followed, tokB was persisted.
C3_Witness ==
    /\ apc = "done"
    /\ firstVerdict = "False"
    /\ loaded = "tokA"
    /\ logins = 2
    /\ cacheFile = [exists |-> TRUE, content |-> "tokB"]

\* C7: is_token_valid() never raises and fails closed: every probe other than
\* a non-empty token answered 200 with status "success" returns False.
C7_ProbeFailsClosed ==
    lastProbe.verdict # "none" =>
        lastProbe.verdict =
            IF lastProbe.token # NoToken /\ lastProbe.outcome = "success"
            THEN "True" ELSE "False"

\* C8: a failed login (a status other than 200, or a failure of the login
\* request itself) makes get_bearer() return the empty token and is never an
\* exception out of authenticate().
C8_FailedLoginReprompts ==
    lastLogin.kind \in {"non_200", "request_exception"} =>
        /\ ~lastLogin.raised
        /\ lastLogin.token = NoToken
        /\ raisedBy # "get_bearer"

(***************************************************************************)
(* Page resolution properties (SpecPages).                                 *)
(***************************************************************************)
\* C4: at most one before_download_page call is inside the gated body
\* (metadata re-fetch, lookup, page query) at any time.
C4_SingleFlight == Cardinality({t \in Tasks : InBody(t)}) <= 1

\* One call awaits its page query while another waits at the gate.
C4_Witness ==
    \E t, u \in Tasks : tasks[t].pc = "await_thread" /\ tasks[u].pc = "await_fut"

\* C5: no exception leaves before_download_page: every call that is over has
\* returned a result.
C5_NoExceptionEscapes == \A t \in Tasks : tasks[t].pc # "raised"

\* C6: get_book_infos() never raises on what the backend sent: neither
\* response.json(), nor data.get("data"), nor _fill_infos raises.
C6_MetadataNeverRaises ==
    \A t \in Tasks :
        tasks[t].raisedIn \notin {"response.json", "data.get", "_fill_infos"}

\* C9: a call whose table (built from the metadata it fetched) is absent or
\* empty, or lacks the key page_num + 1, returns "" and has issued no
\* getPageById query; a query is issued only on a key of the table.
C9_MissReturnsEmptyWithoutQuery ==
    \A t \in Tasks :
        /\ tasks[t].lookup \in {"absent", "miss"} =>
            /\ tasks[t].pc = "returned"
            /\ tasks[t].result = JStr("")
            /\ tasks[t].queries = 0
        /\ tasks[t].queries > 0 => tasks[t].lookup = "hit"

\* One call found no table at all, another a table without its key.
C9_Witness ==
    \E t, u \in Tasks :
        /\ tasks[t].lookup = "absent" /\ tasks[t].result = JStr("")
        /\ tasks[u].lookup = "miss" /\ tasks[u].result = JStr("")

\* C10: calls enter the gated body in the order they arrived at the gate: the
\* calls that have entered are the first arrivals, in arrival order.
C10_GateIsFifo ==
    /\ Len(entered) <= Len(arrivals)
    /\ entered = SubSeq(arrivals, 1, Len(entered))

\* Two calls queued behind the first; the first is out and the gate has gone
\* to the earlier of the two while the later still waits.
C10_Witness ==
    /\ arrivals = <<1, 2, 3>>
    /\ entered = <<1>>
    /\ Len(sem.waiters) = 2
    /\ sem.waiters[1] = [task |-> 2, done |-> TRUE]
    /\ sem.waiters[2] = [task |-> 3, done |-> FALSE]

(***************************************************************************)
(* Properties of _fill_infos on its own (SpecFill).                        *)
(***************************************************************************)
\* The volumes of the answer given, and the id of the chapter read.
VolumesGiven == Sub(Sub(Sub(given, "data"), "manga"), "volumes").v

ChapterRead == Sub(Sub(Sub(Sub(given, "data"), "manga"), "chapter"), "_id")

\* The positions of the volumes whose chapter list holds the chapter read.
Holding ==
    {k \in 1..Len(VolumesGiven) :
        \E c \in 1..Len(Sub(VolumesGiven[k], "chapters").v) :
            Sub(Sub(VolumesGiven[k], "chapters").v[c], "_id") = ChapterRead}

FirstHolding == CHOOSE k \in Holding : \A m \in Holding : k <= m

\* C11: when the id of the chapter read is in the chapter lists of more than
\* one volume, the volume number and description _fill_infos returns are
\* those of the first such volume of the list.
C11_FirstMatchWins ==
    (built # NotFilled /\ Cardinality(Holding) > 1) =>
        /\ ~built.raised
        /\ built.value.volume = PyStr(Sub(VolumesGiven[FirstHolding], "number"))
        /\ built.value.description = Sub(VolumesGiven[FirstHolding], "description")

\* C12: when the id of the chapter read is in the chapter list of exactly one
\* volume, the volume number returned is str() of that volume's number; when
\* no volume lists it, _fill_infos does not raise and returns empty strings
\* as volume number and description.
C12_UniqueOrAbsentVolume ==
    built # NotFilled =>
        /\ Cardinality(Holding) = 1 =>
            /\ ~built.raised
            /\ built.value.volume = PyStr(Sub(VolumesGiven[FirstHolding], "number"))
        /\ Holding = {} =>
            /\ ~built.raised
            /\ built.value.volume = ""
            /\ built.value.description = JStr("")

\* The chapter read is the second chapter of the second of two volumes, and of
\* no other; volume "2" came back.
C12_Witness ==
    /\ built # NotFilled
    /\ Len(VolumesGiven) = 2
    /\ Holding = {2}
    /\ Len(Sub(VolumesGiven[2], "chapters").v) = 2
    /\ Sub(Sub(VolumesGiven[2], "chapters").v[2], "_id") = ChapterRead
    /\ built.value.volume = "2"

\* The page list of the chapter read: none when the answer has null for it.
PagesGiven ==
    LET pages == Sub(Sub(Sub(Sub(given, "data"), "manga"), "chapter"), "pages")
    IN  IF pages.t = "arr" THEN pages.v ELSE <<>>

\* C16: the table _fill_infos builds has the page numbers of the page list as
\* its keys, each with the id of a page of that number (empty when there is
\* no page), and page_urls has as many entries as the table has keys.
C16_TableOfPageList ==
    built # NotFilled =>
        /\ ~built.raised
        /\ LET table == built.value.custom_fields["pages_map"] IN
            /\ DOMAIN table =
                {Sub(PagesGiven[k], "number") : k \in 1..Len(PagesGiven)}
            /\ \A n \in DOMAIN table :
                \E k \in 1..Len(PagesGiven) :
                    /\ Sub(PagesGiven[k], "number") = n
                    /\ Sub(PagesGiven[k], "_id") = table[n]
            /\ Len(built.value.page_urls) = Cardinality(DOMAIN table)

\* The pages (1, "p1"), (2, "p2") gave the table {1: "p1", 2: "p2"} and two
\* placeholders.
C16_Witness ==
    /\ built # NotFilled
    /\ PagesGiven = <<Page(1, "p1"), Page(2, "p2")>>
    /\ built.value.custom_fields["pages_map"] =
        (JNum(1) :> JStr("p1") @@ JNum(2) :> JStr("p2"))
    /\ built.value.page_urls = <<"", "">>

(***************************************************************************)
(* The session during page work (SpecPages).                               *)
(***************************************************************************)
\* C13: no get_book_infos() or before_download_page() step, in any number and
\* interleaving, changes the authorization header, self.bearer or the token
\* cache file: they stay as authenticate() left them.
C13_SessionWrittenOnlyByAuthenticate ==
    [][/\ authorization' = authorization
       /\ bearer' = bearer
       /\ cacheFile' = cacheFile]_vars

\* Every task has made its call, on both instances, one of them came back with
\* an image URL, and the session is the one authenticate() established.
C13_Witness ==
    /\ \A t \in Tasks : tasks[t].pc \in {"returned", "raised"}
    /\ \E t \in Tasks : tasks[t].result.t = "str" /\ tasks[t].result # JStr("")
    /\ \E t \in Tasks : tasks[t].pc = "raised"
    /\ plugin["p1"].slug # <<>>
    /\ authorization = BearerHeader("tokA")
    /\ bearer = "tokA"
    /\ cacheFile = [exists |-> TRUE, content |-> "tokA"]

(***************************************************************************)
(* Properties of _parse_url on its own (SpecUrl).                          *)
(***************************************************************************)
\* C14: once _parse_url() has set the pair (slug, chapter_nb) of an instance,
\* no later call changes it, and chapter_nb is a float: 12.5 for the chapter
\* segment "12.5", 3.0 for "3".
C14_ParsedOnceAsFloat ==
    [][\A i \in Instances :
        plugin[i].slug # <<>> =>
            /\ plugin'[i].slug = plugin[i].slug
            /\ plugin'[i].chapter_nb = plugin[i].chapter_nb
            /\ plugin[i].chapter_nb.t = "float"
            /\ plugin[i].url = <<Lire, "d", "/", "1", "2", ".", "5">> =>
                plugin[i].chapter_nb = PyFloat([num |-> 125, scale |-> 1])
            /\ plugin[i].url = <<Lire, "d", "/", "3">> =>
                plugin[i].chapter_nb = PyFloat([num |-> 3, scale |-> 0])]_vars

\* C20: on an instance whose URL is_valid_url() accepts, no _parse_url() call
\* raises, and after a call the slug is not empty and chapter_nb is a float.
C20_AcceptedUrlParses ==
    \A i \in Instances :
        (is_valid_url(plugin[i].url) /\ parses[i].calls > 0) =>
            /\ ~parses[i].raised
            /\ plugin[i].slug # <<>>
            /\ plugin[i].chapter_nb.t = "float"

\* The page list of the answer a call fetched, none when it has no list.
FetchedPages(t) ==
    LET f == tasks[t].fetched
        pages == IF f = NoFetch THEN Absent
                 ELSE Sub(Sub(Sub(Sub(f.body, "data"), "manga"), "chapter"), "pages")
    IN  IF pages.t = "arr" THEN pages.v ELSE <<>>

\* C17: a call past line 206 holds the gate and an answer to getReadingChapter
\* that it fetched itself in a step made while it held the gate; no call
\* outside the body holds one, so none outlives its call; and the page id of a
\* getPageById query is the id that the answer fetched by this call gives for
\* page number page_num + 1.
C17_QueryUsesOwnFetch ==
    /\ [](\A t \in Tasks :
            /\ tasks[t].pc \in {"lookup", "await_thread"} <=> tasks[t].fetched # NoFetch
            /\ tasks[t].fetched # NoFetch => InBody(t)
            /\ tasks[t].pc = "await_thread" =>
                \E k \in 1..Len(FetchedPages(t)) :
                    /\ Sub(FetchedPages(t)[k], "number") = JNum(tasks[t].page_num + 1)
                    /\ Sub(FetchedPages(t)[k], "_id") = tasks[t].page_id)
    /\ [][\A t \in Tasks :
            (tasks'[t].fetched # tasks[t].fetched /\ tasks'[t].fetched # NoFetch) =>
                /\ running = t
                /\ tasks[t].pc = "get_book_infos"
                /\ sem'.value = 0]_vars

\* An earlier call found no page in the answer it fetched and returned "";
\* the next call was answered with two pages and queries the id of page 2.
C17_Witness ==
    /\ tasks[1].pc = "returned"
    /\ tasks[1].lookup = "absent"
    /\ tasks[2].pc = "await_thread"
    /\ tasks[2].page_num = 1
    /\ tasks[2].page_id = JStr("b")

\* A call is over.
Over(t) == tasks[t].pc \in {"returned", "raised"}

\* The waiters the semaphore has handed its permit to and that did not run yet.
HandedTo == {k \in 1..Len(sem.waiters) : sem.waiters[k].done}

\* A call that waits at the gate or is in the gated body.
Pending(t) == tasks[t].pc = "await_fut" \/ InBody(t)

\* C18: the permit of the gate is never lost: it is in the semaphore, with the
\* call in the body, or handed to a waiter, so every way out of the body has
\* released it; a call that waits at the gate or is in the body stays so until
\* it has returned or raised; and, with calls that go on when they can, again
\* and again no call waits or is in the body, so every call that waits at the
\* gate or is in the body is over at some later time.
C18_GateAlwaysReleased ==
    /\ [](sem.value + Cardinality({t \in Tasks : InBody(t)})
            + Cardinality(HandedTo) = SemInitial)
    /\ [][\A t \in Tasks : Pending(t) => Pending(t)' \/ Over(t)']_vars
    /\ []<>(\A t \in Tasks : ~Pending(t))

\* The first call left by an exception, the second, queued behind it, has
\* returned, and the permit is handed to the third, which waited behind both.
C18_Witness ==
    /\ tasks[1].pc = "raised"
    /\ tasks[2].pc = "returned"
    /\ tasks[3].pc = "await_fut"
    /\ sem.waiters = <<[task |-> 3, done |-> TRUE]>>

\* The calls on instance i that are in the gated body.
InBodyOn(i) == {t \in Tasks : InBody(t) /\ tasks[t].self = i}

\* C19: the gate is one for all instances: while a call on one instance is in
\* the gated body no call on another instance is, and a call that arrives on
\* any instance meanwhile has to wait.
C19_GateSharedByInstances ==
    \A i, j \in Instances :
        (i # j /\ InBodyOn(i) # {}) =>
            /\ InBodyOn(j) = {}
            /\ \A t \in Tasks :
                (tasks[t].self = j /\ tasks[t].pc # "idle" /\ ~Over(t)) =>
                    tasks[t].pc = "await_fut"

\* A call on p1 awaits its page query; a call on p2 waits at the gate.
C19_Witness ==
    \E t, u \in Tasks :
        /\ tasks[t].self = "p1" /\ tasks[t].pc = "await_thread"
        /\ tasks[u].self = "p2" /\ tasks[u].pc = "await_fut"

(***************************************************************************)
(* Failures of the token cache (SpecAuth).                                 *)
(***************************************************************************)
\* C15: a write_token() that fails to create the cache directory or to write
\* the file leaves authenticate() by its exception, with no authorization
\* header installed; authenticate() gets past write_token() only with the
\* token in the file.
C15_WriteFailurePropagates ==
    /\ raisedBy = "write_token" =>
        /\ apc = "raised"
        /\ authorization = NoHeader
    /\ apc \in {"set_header", "done"} =>
        /\ raisedBy = "none"
        /\ cacheFile = [exists |-> TRUE, content |-> bearer]

\* A token obtained by login was accepted, the cache directory could not be
\* created, and authenticate() was left by the exception.
C15_Witness ==
    /\ apc = "raised"
    /\ raisedBy = "write_token"
    /\ logins > 0
    /\ Accepted
    /\ cacheFile = AbsentFile

====
